---- MODULE Spec2Model ----
(***************************************************************************)
(* State-machine model of the ChatSupport page component                   *)
(* (src/src/pages/ChatSupport.tsx): the conversation session engine with   *)
(* its message list, input buffer, typing flag, location, voice input and  *)
(* the asynchronous collaborators it talks to (dialogue backend,           *)
(* geolocation, speech recognition, persistence store).                    *)
(*                                                                         *)
(* Text is modelled as a sequence of tokens (single characters or fixed    *)
(* literals), so that trim() and number formatting are computed.           *)
(* React state is modelled as rendered before the next event is handled:   *)
(* every handler sees the latest committed state.  State setters of an     *)
(* unmounted component instance are no-ops.                                *)
(***************************************************************************)
EXTENDS Integers, Sequences, FiniteSets, TLC

VARIABLES
    mounted,      \* is a ChatSupport instance mounted
    messages,     \* useState: messages
    input,        \* useState: input
    isTyping,     \* useState: isTyping
    location,     \* useState: location (<<>> is null, else <<coords>>)
    isRecording,  \* useState: isRecording
    recognition,  \* useState: recognition (0 is null, else an object id)
    locale,       \* i18n.language
    store,        \* the persisted chat messages behind ../lib/storage
    clock,        \* logical time of new Date(): one tick per created message
    inflight,     \* sendChatMessage calls awaiting their outcome
    geoPending,   \* getCurrentPosition calls awaiting their callback
    recSession,   \* recognition objects that can still matter: lang, state
    spoken,       \* utterances handed to window.speechSynthesis.speak
    toast,        \* notification raised by the last step ("none" if none)
    startThrew,   \* recognition.start() was called on an active session
    accepted,     \* history: user messages of accepted submissions, in order
    okReplies,    \* history: number of successful non-empty replies
    nShares,      \* history: number of getCurrentPosition calls issued
    hasSpeechRec, \* 'webkitSpeechRecognition' in window
    hasSynth,     \* 'speechSynthesis' in window
    hasGeo        \* navigator.geolocation is defined

vars == <<mounted, messages, input, isTyping, location, isRecording,
          recognition, locale, store, clock, inflight, geoPending,
          recSession, spoken, toast, startThrew, accepted, okReplies,
          nShares, hasSpeechRec, hasSynth, hasGeo>>

compState == <<messages, input, isTyping, location, isRecording, recognition>>
history == <<accepted, okReplies, nShares>>
platform == <<hasSpeechRec, hasSynth, hasGeo>>

-----------------------------------------------------------------------------
(* Bounds of the model *)

MaxSubmits == 2
MaxShares == 1
MaxSessions == 2

-----------------------------------------------------------------------------
(* Data *)

LANGUAGES == {"en", "hi", "ta"}

(* The languages the modelled user selects; the page starts in the first. *)
Locales == {"en", "hi"}

SYSTEM_PROMPT == <<"You are GuardianBot, an AI emergency response assistant. ...">>

Whitespace == {" "}

Inputs == {<<>>, <<" ">>, <<" ", "a">>}

Transcripts == {<<"a">>}

Replies == {<<>>, <<"o", "k">>}

Coords == {[lat |-> 12, lng |-> -7]}

RECURSIVE TrimStart(_)
TrimStart(s) ==
    IF s # <<>> /\ Head(s) \in Whitespace THEN TrimStart(Tail(s)) ELSE s

RECURSIVE TrimEnd(_)
TrimEnd(s) ==
    IF s # <<>> /\ s[Len(s)] \in Whitespace
    THEN TrimEnd(SubSeq(s, 1, Len(s) - 1))
    ELSE s

(* Faulty variant: the text is tested and used untrimmed *)
Trim_KeepsWhitespace(s) == s

Trim(s) == TrimEnd(TrimStart(s))

DigitChar == <<"0", "1", "2", "3", "4", "5", "6", "7", "8", "9">>

RECURSIVE Digits(_)
Digits(n) ==
    IF n < 10 THEN <<DigitChar[n + 1]>>
    ELSE Digits(n \div 10) \o <<DigitChar[(n % 10) + 1]>>

NumberToString(n) == IF n < 0 THEN <<"-">> \o Digits(-n) ELSE Digits(n)

t(key, lang) == <<key, lang>>

Message(role, content, at) ==
    [role |-> role, content |-> content, created_at |-> at]

LocationPrefix == <<"[map-pin] Location shared: ">>

(* Faulty variant: the announcement repeats the latitude in place of the longitude *)
LocationContent_LatTwice(loc) ==
    LocationPrefix \o NumberToString(loc.lat) \o <<",", " ">> \o NumberToString(loc.lat)

LocationContent(loc) ==
    LocationPrefix \o NumberToString(loc.lat) \o <<",", " ">> \o NumberToString(loc.lng)

getChatMessages(s) == s

saveChatMessage(s, m) == Append(s, m)

(* Faulty variant: the request is built from a list that lacks its latest message *)
ApiMessages_SkipsLatest(msgs, text) ==
    <<[role |-> "system", content |-> SYSTEM_PROMPT]>>
        \o [i \in 1..(Len(msgs) - 1) |-> [role |-> msgs[i].role, content |-> msgs[i].content]]
        \o <<[role |-> "user", content |-> text]>>

ApiMessages(msgs, text) ==
    <<[role |-> "system", content |-> SYSTEM_PROMPT]>>
        \o [i \in 1..Len(msgs) |-> [role |-> msgs[i].role, content |-> msgs[i].content]]
        \o <<[role |-> "user", content |-> text]>>

(* A pending callback belongs to the component instance that issued it.    *)
(* live records whether that instance is the one mounted now; Unmount      *)
(* clears it, and a later Mount creates another instance.                  *)
Detach(pending) == {[p EXCEPT !.live = FALSE] : p \in pending}

-----------------------------------------------------------------------------
(* Initial state: a first visit.  Nothing is mounted yet and the store is  *)
(* empty; a stored history is what an earlier Mount and its operations     *)
(* leave behind for the next Mount.                                        *)

Init ==
    /\ mounted = FALSE
    /\ messages = <<>>
    /\ input = <<>>
    /\ isTyping = FALSE
    /\ location = <<>>
    /\ isRecording = FALSE
    /\ recognition = 0
    /\ locale = "en"
    /\ store = <<>>
    /\ clock = 0
    /\ inflight = {}
    /\ geoPending = {}
    /\ recSession = <<>>
    /\ spoken = <<>>
    /\ toast = "none"
    /\ startThrew = FALSE
    /\ accepted = <<>>
    /\ okReplies = 0
    /\ nShares = 0
    /\ hasSpeechRec \in BOOLEAN
    /\ hasSynth \in BOOLEAN
    /\ hasGeo \in BOOLEAN

-----------------------------------------------------------------------------
(* Recognition objects.  recSession maps object ids to [live, lang, state];*)
(* a session is "idle", "listening" (started), "stopping" (stop()          *)
(* requested, an armed outcome may still fire) or "ending" (result or      *)
(* error delivered, only the end event is left).  An idle object that      *)
(* the component state no longer references can never act again and is     *)
(* dropped; ids are reused.                                                *)

ActiveObjects(rs) == {o \in DOMAIN rs : rs[o].state # "idle"}

Restrict(rs, keep) == [o \in keep |-> rs[o]]

FreshObject(rs) == CHOOSE o \in 1..(MaxSessions + 1) : o \notin ActiveObjects(rs)

SetSession(obj, st) == [recSession EXCEPT ![obj].state = st]

(* The [i18n.language] effect: create a recognition object, then load or   *)
(* seed the message list.  sessions is recSession as the effect finds it   *)
(* and recBefore the recognition state it replaces.                        *)

(* Faulty variant: the effect seeds the greeting without looking at the store *)
InitializeEffect_AlwaysSeeds(lang, sessions, recBefore) ==
    /\ IF hasSpeechRec
       THEN LET kept == Restrict(sessions, ActiveObjects(sessions))
                obj == FreshObject(sessions)
            IN /\ recognition' = obj
               /\ recSession' = [o \in DOMAIN kept \cup {obj} |->
                      IF o = obj
                      THEN [live |-> TRUE, lang |-> lang, state |-> "idle"]
                      ELSE kept[o]]
       ELSE /\ recognition' = recBefore
            /\ recSession' = sessions
    /\ LET initialMessage ==
               Message("assistant", t("chat.initialMessage", lang), clock + 1)
       IN /\ store' = saveChatMessage(store, initialMessage)
          /\ messages' = <<initialMessage>>
          /\ clock' = clock + 1

InitializeEffect(lang, sessions, recBefore) ==
    /\ IF hasSpeechRec
       THEN LET kept == Restrict(sessions, ActiveObjects(sessions))
                obj == FreshObject(sessions)
            IN /\ recognition' = obj
               /\ recSession' = [o \in DOMAIN kept \cup {obj} |->
                      IF o = obj
                      THEN [live |-> TRUE, lang |-> lang, state |-> "idle"]
                      ELSE kept[o]]
       ELSE /\ recognition' = recBefore
            /\ recSession' = sessions
    /\ LET savedMessages == getChatMessages(store) IN
       IF Len(savedMessages) = 0
       THEN LET initialMessage ==
                    Message("assistant", t("chat.initialMessage", lang), clock + 1)
            IN /\ store' = saveChatMessage(store, initialMessage)
               /\ messages' = <<initialMessage>>
               /\ clock' = clock + 1
       ELSE /\ messages' = savedMessages
            /\ UNCHANGED <<store, clock>>

Mount ==
    /\ ~mounted
    /\ mounted' = TRUE
    /\ input' = <<>>
    /\ isTyping' = FALSE
    /\ location' = <<>>
    /\ isRecording' = FALSE
    /\ InitializeEffect(locale, recSession, 0)
    /\ toast' = "none"
    /\ UNCHANGED <<locale, inflight, geoPending, spoken, startThrew,
                   history, platform>>

Unmount ==
    /\ mounted
    /\ mounted' = FALSE
    /\ messages' = <<>>
    /\ input' = <<>>
    /\ isTyping' = FALSE
    /\ location' = <<>>
    /\ isRecording' = FALSE
    /\ recognition' = 0
    /\ inflight' = Detach(inflight)
    /\ geoPending' = Detach(geoPending)
    /\ recSession' = [o \in ActiveObjects(recSession) |->
                         [recSession[o] EXCEPT !.live = FALSE]]
    /\ toast' = "none"
    /\ UNCHANGED <<locale, store, clock, spoken, startThrew, history, platform>>

ChangeLanguage(lang) ==
    /\ mounted
    /\ lang # locale
    /\ locale' = lang
    /\ InitializeEffect(lang, recSession, recognition)
    /\ toast' = "none"
    /\ UNCHANGED <<mounted, input, isTyping, location, isRecording,
                   inflight, geoPending, spoken, startThrew, history, platform>>

SetInput(text) ==
    /\ mounted
    /\ text # input
    /\ input' = text
    /\ toast' = "none"
    /\ UNCHANGED <<mounted, messages, isTyping, location, isRecording,
                   recognition, locale, store, clock, inflight, geoPending,
                   recSession, spoken, startThrew, history, platform>>

-----------------------------------------------------------------------------
(* handleSubmit up to the await, and the two ways the await ends *)

(* Faulty variant: the submit button ignores isTyping *)
SubmitDisabled_IgnoresTyping == Trim(input) = <<>>

SubmitDisabled == Trim(input) = <<>> \/ isTyping

handleSubmit ==
    /\ mounted
    /\ ~SubmitDisabled
    /\ Trim(input) # <<>>
    /\ Len(accepted) < MaxSubmits
    /\ LET userMessage == Message("user", input, clock + 1) IN
       /\ messages' = Append(messages, userMessage)
       /\ store' = saveChatMessage(store, userMessage)
       /\ inflight' = inflight \cup
              {[id |-> Len(accepted) + 1, live |-> TRUE,
                at |-> clock + 1, api |-> ApiMessages(messages, input)]}
    /\ clock' = clock + 1
    /\ input' = <<>>
    /\ isTyping' = TRUE
    /\ accepted' = Append(accepted, Message("user", input, clock + 1))
    /\ toast' = "none"
    /\ UNCHANGED <<mounted, location, isRecording, recognition, locale,
                   geoPending, recSession, spoken, startThrew, okReplies,
                   nShares, platform>>

(* Faulty variant: the utterance is always tagged with the default language *)
speakMessage_DefaultLang(text) ==
    spoken' = IF hasSynth
              THEN Append(spoken, [text |-> text, lang |-> "en"])
              ELSE spoken

speakMessage(text) ==
    spoken' = IF hasSynth
              THEN Append(spoken, [text |-> text, lang |-> locale])
              ELSE spoken

(* Faulty variant: the reply is appended without the "if (response)" test *)
SendChatMessageResolves_KeepsEmpty(req, response) ==
    /\ req \in inflight
    /\ inflight' = inflight \ {req}
    /\ LET botResponse == Message("assistant", response, clock + 1) IN
       /\ messages' = IF req.live THEN Append(messages, botResponse)
                      ELSE messages
       /\ store' = saveChatMessage(store, botResponse)
       /\ speakMessage(response)
       /\ clock' = clock + 1
       /\ okReplies' = IF response # <<>> THEN okReplies + 1 ELSE okReplies
    /\ isTyping' = IF req.live THEN FALSE ELSE isTyping
    /\ toast' = "none"
    /\ UNCHANGED <<mounted, input, location, isRecording, recognition, locale,
                   geoPending, recSession, startThrew, accepted, nShares,
                   platform>>

(* Faulty variant: the reply is put in front of the list instead of at its end *)
SendChatMessageResolves_Prepends(req, response) ==
    /\ req \in inflight
    /\ inflight' = inflight \ {req}
    /\ IF response # <<>>
       THEN LET botResponse == Message("assistant", response, clock + 1) IN
            /\ messages' = IF req.live THEN <<botResponse>> \o messages
                           ELSE messages
            /\ store' = saveChatMessage(store, botResponse)
            /\ speakMessage(response)
            /\ clock' = clock + 1
            /\ okReplies' = okReplies + 1
       ELSE UNCHANGED <<messages, store, spoken, clock, okReplies>>
    /\ isTyping' = IF req.live THEN FALSE ELSE isTyping
    /\ toast' = "none"
    /\ UNCHANGED <<mounted, input, location, isRecording, recognition, locale,
                   geoPending, recSession, startThrew, accepted, nShares,
                   platform>>

SendChatMessageResolves(req, response) ==
    /\ req \in inflight
    /\ inflight' = inflight \ {req}
    /\ IF response # <<>>
       THEN LET botResponse == Message("assistant", response, clock + 1) IN
            /\ messages' = IF req.live THEN Append(messages, botResponse)
                           ELSE messages
            /\ store' = saveChatMessage(store, botResponse)
            /\ speakMessage(response)
            /\ clock' = clock + 1
            /\ okReplies' = okReplies + 1
       ELSE UNCHANGED <<messages, store, spoken, clock, okReplies>>
    /\ isTyping' = IF req.live THEN FALSE ELSE isTyping
    /\ toast' = "none"
    /\ UNCHANGED <<mounted, input, location, isRecording, recognition, locale,
                   geoPending, recSession, startThrew, accepted, nShares,
                   platform>>

(* Faulty variant: the catch block also appends an assistant message *)
SendChatMessageRejects_AppendsApology(req) ==
    /\ req \in inflight
    /\ inflight' = inflight \ {req}
    /\ toast' = "error: Failed to get response. Please try again."
    /\ LET apology == Message("assistant", <<"s", "o", "r", "r", "y">>, clock + 1) IN
       /\ messages' = IF req.live THEN Append(messages, apology) ELSE messages
       /\ store' = saveChatMessage(store, apology)
    /\ clock' = clock + 1
    /\ isTyping' = IF req.live THEN FALSE ELSE isTyping
    /\ UNCHANGED <<mounted, input, location, isRecording, recognition, locale,
                   geoPending, recSession, spoken, startThrew, history,
                   platform>>

(* Faulty variant: setIsTyping(false) sits in the try block, not in finally *)
SendChatMessageRejects_NoFinally(req) ==
    /\ req \in inflight
    /\ inflight' = inflight \ {req}
    /\ toast' = "error: Failed to get response. Please try again."
    /\ UNCHANGED <<mounted, messages, input, isTyping, location, isRecording,
                   recognition, locale, store, clock, geoPending, recSession,
                   spoken, startThrew, history, platform>>

SendChatMessageRejects(req) ==
    /\ req \in inflight
    /\ inflight' = inflight \ {req}
    /\ toast' = "error: Failed to get response. Please try again."
    /\ isTyping' = IF req.live THEN FALSE ELSE isTyping
    /\ UNCHANGED <<mounted, messages, input, location, isRecording,
                   recognition, locale, store, clock, geoPending, recSession,
                   spoken, startThrew, history, platform>>

-----------------------------------------------------------------------------
(* shareLocation and the two geolocation callbacks *)

shareLocation ==
    /\ mounted
    /\ IF hasGeo
       THEN /\ nShares < MaxShares
            /\ geoPending' = geoPending \cup {[id |-> nShares + 1, live |-> TRUE]}
            /\ nShares' = nShares + 1
       ELSE UNCHANGED <<geoPending, nShares>>
    /\ toast' = "none"
    /\ UNCHANGED <<mounted, compState, locale, store, clock, inflight,
                   recSession, spoken, startThrew, accepted, okReplies,
                   platform>>

(* Faulty variant: the success callback also clears the input buffer *)
PositionSuccess_ClearsInput(g, position) ==
    /\ g \in geoPending
    /\ geoPending' = geoPending \ {g}
    /\ LET newLocation == [lat |-> position.lat, lng |-> position.lng]
           locationMessage ==
               Message("user", LocationContent(newLocation), clock + 1)
       IN /\ location' = IF g.live THEN <<newLocation>> ELSE location
          /\ messages' = IF g.live THEN Append(messages, locationMessage)
                         ELSE messages
          /\ store' = saveChatMessage(store, locationMessage)
    /\ input' = IF g.live THEN <<>> ELSE input
    /\ clock' = clock + 1
    /\ toast' = "success: Location shared successfully"
    /\ UNCHANGED <<mounted, isTyping, isRecording, recognition, locale,
                   inflight, recSession, spoken, startThrew, history, platform>>

PositionSuccess(g, position) ==
    /\ g \in geoPending
    /\ geoPending' = geoPending \ {g}
    /\ LET newLocation == [lat |-> position.lat, lng |-> position.lng]
           locationMessage ==
               Message("user", LocationContent(newLocation), clock + 1)
       IN /\ location' = IF g.live THEN <<newLocation>> ELSE location
          /\ messages' = IF g.live THEN Append(messages, locationMessage)
                         ELSE messages
          /\ store' = saveChatMessage(store, locationMessage)
    /\ clock' = clock + 1
    /\ toast' = "success: Location shared successfully"
    /\ UNCHANGED <<mounted, input, isTyping, isRecording, recognition, locale,
                   inflight, recSession, spoken, startThrew, history, platform>>

PositionError(g) ==
    /\ g \in geoPending
    /\ geoPending' = geoPending \ {g}
    /\ toast' = "error: Could not get your location"
    /\ UNCHANGED <<mounted, compState, locale, store, clock, inflight,
                   recSession, spoken, startThrew, history, platform>>

-----------------------------------------------------------------------------
(* Voice input: the toggle and the recognition events *)

(* Faulty variant: the stop branch also clears the recording flag *)
toggleVoiceInput_StopClearsRecording ==
    /\ mounted
    /\ IF recognition = 0
       THEN /\ toast' = "error: Speech recognition is not supported in your browser"
            /\ UNCHANGED <<isRecording, recSession, startThrew>>
       ELSE /\ toast' = "none"
            /\ IF isRecording
               THEN /\ recSession' =
                         IF recSession[recognition].state = "listening"
                         THEN SetSession(recognition, "stopping")
                         ELSE recSession
                    /\ isRecording' = FALSE
                    /\ UNCHANGED startThrew
               ELSE IF recSession[recognition].state = "idle"
                    THEN /\ Cardinality(ActiveObjects(recSession)) < MaxSessions
                         /\ recSession' = SetSession(recognition, "listening")
                         /\ isRecording' = TRUE
                         /\ UNCHANGED startThrew
                    ELSE /\ startThrew' = TRUE
                         /\ UNCHANGED <<isRecording, recSession>>
    /\ UNCHANGED <<mounted, messages, input, isTyping, location, recognition,
                   locale, store, clock, inflight, geoPending, spoken,
                   history, platform>>

toggleVoiceInput ==
    /\ mounted
    /\ IF recognition = 0
       THEN /\ toast' = "error: Speech recognition is not supported in your browser"
            /\ UNCHANGED <<isRecording, recSession, startThrew>>
       ELSE /\ toast' = "none"
            /\ IF isRecording
               THEN /\ recSession' =
                         IF recSession[recognition].state = "listening"
                         THEN SetSession(recognition, "stopping")
                         ELSE recSession
                    /\ UNCHANGED <<isRecording, startThrew>>
               ELSE IF recSession[recognition].state = "idle"
                    THEN /\ Cardinality(ActiveObjects(recSession)) < MaxSessions
                         /\ recSession' = SetSession(recognition, "listening")
                         /\ isRecording' = TRUE
                         /\ UNCHANGED startThrew
                    ELSE /\ startThrew' = TRUE
                         /\ UNCHANGED <<isRecording, recSession>>
    /\ UNCHANGED <<mounted, messages, input, isTyping, location, recognition,
                   locale, store, clock, inflight, geoPending, spoken,
                   history, platform>>

(* Faulty variant: the transcript is submitted as soon as it arrives *)
OnResult_AutoSubmits(obj, transcript) ==
    /\ obj \in DOMAIN recSession
    /\ recSession[obj].state \in {"listening", "stopping"}
    /\ recSession' = SetSession(obj, "ending")
    /\ input' = IF recSession[obj].live THEN transcript ELSE input
    /\ isTyping' = IF recSession[obj].live THEN TRUE ELSE isTyping
    /\ toast' = "none"
    /\ UNCHANGED <<mounted, messages, location, isRecording,
                   recognition, locale, store, clock, inflight, geoPending,
                   spoken, startThrew, history, platform>>

OnResult(obj, transcript) ==
    /\ obj \in DOMAIN recSession
    /\ recSession[obj].state \in {"listening", "stopping"}
    /\ recSession' = SetSession(obj, "ending")
    /\ input' = IF recSession[obj].live THEN transcript ELSE input
    /\ toast' = "none"
    /\ UNCHANGED <<mounted, messages, isTyping, location, isRecording,
                   recognition, locale, store, clock, inflight, geoPending,
                   spoken, startThrew, history, platform>>

OnError(obj) ==
    /\ obj \in DOMAIN recSession
    /\ recSession[obj].state \in {"listening", "stopping"}
    /\ recSession' = SetSession(obj, "ending")
    /\ isRecording' = IF recSession[obj].live THEN FALSE ELSE isRecording
    /\ toast' = "none"
    /\ UNCHANGED <<mounted, messages, input, isTyping, location, recognition,
                   locale, store, clock, inflight, geoPending, spoken,
                   startThrew, history, platform>>

(* Faulty variant: the end event does not reset the recording flag *)
OnEnd_KeepsRecording(obj) ==
    /\ obj \in DOMAIN recSession
    /\ recSession[obj].state \in {"listening", "stopping", "ending"}
    /\ recSession' = IF obj = recognition
                     THEN SetSession(obj, "idle")
                     ELSE Restrict(recSession, DOMAIN recSession \ {obj})
    /\ toast' = "none"
    /\ UNCHANGED <<mounted, messages, input, isTyping, location, isRecording,
                   recognition, locale, store, clock, inflight, geoPending,
                   spoken, startThrew, history, platform>>

OnEnd(obj) ==
    /\ obj \in DOMAIN recSession
    /\ recSession[obj].state \in {"listening", "stopping", "ending"}
    /\ recSession' = IF obj = recognition
                     THEN SetSession(obj, "idle")
                     ELSE Restrict(recSession, DOMAIN recSession \ {obj})
    /\ isRecording' = IF recSession[obj].live THEN FALSE ELSE isRecording
    /\ toast' = "none"
    /\ UNCHANGED <<mounted, messages, input, isTyping, location, recognition,
                   locale, store, clock, inflight, geoPending, spoken,
                   startThrew, history, platform>>

-----------------------------------------------------------------------------

Next ==
    \/ Mount
    \/ Unmount
    \/ \E lang \in Locales : ChangeLanguage(lang)
    \/ \E text \in Inputs : SetInput(text)
    \/ handleSubmit
    \/ \E req \in inflight, response \in Replies : SendChatMessageResolves(req, response)
    \/ \E req \in inflight : SendChatMessageRejects(req)
    \/ shareLocation
    \/ \E g \in geoPending, position \in Coords : PositionSuccess(g, position)
    \/ \E g \in geoPending : PositionError(g)
    \/ toggleVoiceInput
    \/ \E obj \in DOMAIN recSession, transcript \in Transcripts : OnResult(obj, transcript)
    \/ \E obj \in DOMAIN recSession : OnError(obj)
    \/ \E obj \in DOMAIN recSession : OnEnd(obj)

Spec == Init /\ [][Next]_vars

(* The chat engine without the voice-input events.  The voice actions      *)
(* write only input, isRecording, recSession, startThrew and toast, and    *)
(* the actions below read of these only input, which SetInput already      *)
(* sets to any text.                                                       *)
NextChat ==
    \/ Mount
    \/ Unmount
    \/ \E lang \in Locales : ChangeLanguage(lang)
    \/ \E text \in Inputs : SetInput(text)
    \/ handleSubmit
    \/ \E req \in inflight, response \in Replies : SendChatMessageResolves(req, response)
    \/ \E req \in inflight : SendChatMessageRejects(req)
    \/ shareLocation
    \/ \E g \in geoPending, position \in Coords : PositionSuccess(g, position)
    \/ \E g \in geoPending : PositionError(g)

InitChat == Init /\ hasSpeechRec

SpecChat == InitChat /\ [][NextChat]_vars

(* The voice-input bridge without the chat and location operations: the    *)
(* toggle and the recognition events read and write only input,            *)
(* isRecording, recognition, recSession, startThrew and toast, and of the  *)
(* other operations only the lifecycle ones write any of these.            *)
NextVoice ==
    \/ Mount
    \/ Unmount
    \/ \E lang \in Locales : ChangeLanguage(lang)
    \/ \E text \in Inputs : SetInput(text)
    \/ toggleVoiceInput
    \/ \E obj \in DOMAIN recSession, transcript \in Transcripts : OnResult(obj, transcript)
    \/ \E obj \in DOMAIN recSession : OnError(obj)
    \/ \E obj \in DOMAIN recSession : OnEnd(obj)

InitVoice == Init /\ hasSynth /\ hasGeo

SpecVoice == InitVoice /\ [][NextVoice]_vars

(* The recording cycle alone, for the progress of the recording flag: the  *)
(* voice actions read the input nowhere, so typing is left out.           *)
NextRecording ==
    \/ Mount
    \/ Unmount
    \/ \E lang \in Locales : ChangeLanguage(lang)
    \/ toggleVoiceInput
    \/ \E obj \in DOMAIN recSession, transcript \in Transcripts : OnResult(obj, transcript)
    \/ \E obj \in DOMAIN recSession : OnError(obj)
    \/ \E obj \in DOMAIN recSession : OnEnd(obj)

(* The speech runtime delivers the end event of the sessions it started   *)
(* (Web Speech API: "end" fires when the service has disconnected, also   *)
(* after a result or an error): end events do not stay pending forever.   *)
EndDelivered == WF_vars(\E obj \in DOMAIN recSession : OnEnd(obj))

SpecVoiceFair == InitVoice /\ [][NextRecording]_vars /\ EndDelivered

-----------------------------------------------------------------------------
(* Vocabulary of the properties *)

IsPrefix(a, b) == Len(a) <= Len(b) /\ SubSeq(b, 1, Len(a)) = a

Last(q) == q[Len(q)]

Contains(text, part) ==
    \E i \in 1..(Len(text) - Len(part) + 1) : SubSeq(text, i, i + Len(part) - 1) = part

IsGreeting(m) ==
    m.role = "assistant" /\ Len(m.content) > 0 /\ m.content[1] = "chat.initialMessage"

IsLocationMessage(m) ==
    m.role = "user" /\ Len(m.content) > 0 /\ m.content[1] = LocationPrefix[1]

IsSubmitted(m) == m.role = "user" /\ ~IsLocationMessage(m)

IsReply(m) == m.role = "assistant" /\ ~IsGreeting(m)

LiveRequests == {r \in inflight : r.live}

IsErrorToast(x) ==
    x \in {"error: Failed to get response. Please try again.",
           "error: Could not get your location"}

ResolveStep == \E req \in inflight, response \in Replies : SendChatMessageResolves(req, response)

RejectStep == \E req \in inflight : SendChatMessageRejects(req)

InitializeStep == Mount \/ \E lang \in Locales : ChangeLanguage(lang)

PositionSuccessStep == \E g \in geoPending, position \in Coords : PositionSuccess(g, position)

PositionErrorStep == \E g \in geoPending : PositionError(g)

-----------------------------------------------------------------------------
(* C1: once every submitText call has settled, the persisted list holds    *)
(* exactly the user messages of the accepted submissions, in acceptance    *)
(* order, and exactly one assistant message per successful non-empty       *)
(* reply.                                                                  *)
C1_PersistedPerSubmission ==
    inflight = {} =>
        /\ SelectSeq(store, IsSubmitted) = accepted
        /\ Len(SelectSeq(store, IsReply)) = okReplies

(* Two submissions overlapped (both user messages were stored before       *)
(* either reply), both were answered, and everything has settled.          *)
C1_Witness ==
    /\ inflight = {}
    /\ Len(accepted) = 2
    /\ okReplies = 2
    /\ \E i \in 1..(Len(store) - 1) : IsSubmitted(store[i]) /\ IsSubmitted(store[i + 1])

(* C2: initialize (mount, or the re-run on a locale change) on an empty    *)
(* store persists and shows exactly one assistant greeting as the sole     *)
(* message; on a non-empty store it adds nothing and adopts the stored     *)
(* messages in stored order; the store never holds a second greeting.      *)
C2_Initialize ==
    [][ /\ InitializeStep =>
            IF store = <<>>
            THEN /\ Len(store') = 1
                 /\ IsGreeting(store'[1])
                 /\ messages' = store'
            ELSE /\ store' = store
                 /\ messages' = store
        /\ Len(SelectSeq(store', IsGreeting)) <= 1 ]_vars

(* The locale was changed on a mounted page whose request is in flight:    *)
(* the greeting is still the single one seeded in the first language.      *)
C2_Witness ==
    /\ mounted
    /\ locale = "hi"
    /\ LiveRequests # {}
    /\ messages = store
    /\ store[1] = Message("assistant", t("chat.initialMessage", "en"), 1)
    /\ Len(SelectSeq(store, IsGreeting)) = 1

(* C3 as stated: a failed backend call leaves the list and the store as    *)
(* they were and raises an error notification, and after any call settles  *)
(* the pending flag is false.                                              *)
C3_Original ==
    [][ /\ RejectStep =>
            /\ messages' = messages
            /\ store' = store
            /\ IsErrorToast(toast')
        /\ (RejectStep \/ ResolveStep) => ~isTyping' ]_vars

(* C3 amended: as above, but the flag that is false after the call settles *)
(* is that of the component instance that issued the call; when that       *)
(* instance is gone the flag of the mounted instance is left as it is.     *)
C3_FailureLeavesList ==
    [][ /\ RejectStep =>
            /\ messages' = messages
            /\ store' = store
            /\ IsErrorToast(toast')
        /\ \A req \in inflight :
              (SendChatMessageRejects(req)
                 \/ \E response \in Replies : SendChatMessageResolves(req, response))
              => isTyping' = IF req.live THEN FALSE ELSE isTyping ]_vars

(* A call of the mounted instance has just failed: the error is shown, the *)
(* flag is down and the list ends with the user message of that call.      *)
C3_Witness ==
    /\ mounted
    /\ toast = "error: Failed to get response. Please try again."
    /\ ~isTyping
    /\ LiveRequests = {}
    /\ messages # <<>>
    /\ IsSubmitted(Last(messages))

(* C4 as stated: on the mounted page the typing indicator is true exactly  *)
(* while some backend request is outstanding.                              *)
C4_Original == mounted => (isTyping <=> inflight # {})

(* C4 amended: the typing indicator is true exactly while a request issued *)
(* by the mounted component instance is outstanding.                       *)
C4_TypingIffOwnRequest ==
    /\ mounted => (isTyping <=> LiveRequests # {})
    /\ ~mounted => ~isTyping

(* Two calls overlapped and the older one settled first: its reply was     *)
(* stored after the user message of the newer call, which is still out.    *)
C4_Witness ==
    /\ mounted
    /\ isTyping
    /\ \E r \in LiveRequests :
          /\ inflight = {r}
          /\ r.at < Len(store)
          /\ IsReply(store[r.at + 1])

(* C5 as stated: at most one backend request is in flight.                 *)
C5_Original == Cardinality(inflight) <= 1

(* C5 amended: at most one request issued by the mounted component         *)
(* instance is in flight.                                                  *)
C5_OneOwnRequest == Cardinality(LiveRequests) <= 1

(* A request is pending while the input buffer holds submittable text.     *)
C5_Witness ==
    /\ mounted
    /\ LiveRequests # {}
    /\ Trim(input) # <<>>

(* C6: a user message is appended (list and store) in the step that        *)
(* accepts its submission, also while another request is out; a reply is   *)
(* appended at the end, after the user message of its own submission; and  *)
(* a reply's arrival leaves the messages already there in place.           *)
C6_AcceptanceOrder ==
    [][ /\ handleSubmit =>
            /\ Len(messages') = Len(messages) + 1
            /\ IsPrefix(messages, messages')
            /\ IsSubmitted(Last(messages')) /\ Last(messages').content = input
            /\ store' = Append(store, Last(messages'))
        /\ \A req \in inflight, response \in Replies :
              SendChatMessageResolves(req, response) =>
                  /\ IsPrefix(messages, messages')
                  /\ IsPrefix(store, store')
                  /\ response # <<>> =>
                        /\ Len(store') = Len(store) + 1
                        /\ IsReply(Last(store')) /\ Last(store').content = response
                        /\ \E i \in 1..Len(store) :
                              IsSubmitted(store[i]) /\ store[i].created_at = req.at
                        /\ req.live =>
                              /\ messages' = Append(messages, Last(store'))
                              /\ \E i \in 1..Len(messages) :
                                    /\ IsSubmitted(messages[i])
                                    /\ messages[i].created_at = req.at ]_vars

(* A late reply: it was stored after two user messages in a row.           *)
C6_Witness ==
    \E i \in 1..(Len(store) - 2) :
        /\ IsSubmitted(store[i])
        /\ IsSubmitted(store[i + 1])
        /\ IsReply(store[i + 2])

(* C7: a reply that arrives after its component was torn down is           *)
(* discarded: not appended, not written to the store, not spoken.          *)
C7_LateReplyDiscarded ==
    [][ \A req \in inflight, response \in Replies :
          (SendChatMessageResolves(req, response) /\ ~req.live) =>
              /\ messages' = messages
              /\ store' = store
              /\ spoken' = spoken ]_vars

C9_FailureNotified ==
    [][ (PositionErrorStep \/ (shareLocation /\ ~hasGeo)) => IsErrorToast(toast') ]_vars

(* C10: no step of submitLocation (the request, its success, its failure)  *)
(* sends a backend request or changes the pending flag or the input.       *)
C10_LocationFrame ==
    [][ (shareLocation \/ PositionSuccessStep \/ PositionErrorStep) =>
            UNCHANGED <<inflight, isTyping, input>> ]_vars

(* A position arrived while a request was pending and text was typed.      *)
C10_Witness ==
    /\ mounted
    /\ toast = "success: Location shared successfully"
    /\ isTyping
    /\ input # <<>>
    /\ location # <<>>

-----------------------------------------------------------------------------
(* Vocabulary of the voice properties *)

ResultStep == \E obj \in DOMAIN recSession, transcript \in Transcripts :
                  OnResult(obj, transcript)

ErrorStep == \E obj \in DOMAIN recSession : OnError(obj)

EndStep == \E obj \in DOMAIN recSession : OnEnd(obj)

(* The held recognition object is listening: it was started and no        *)
(* result, error or end event and no stop() has reached it since.         *)
HeldListening ==
    /\ mounted
    /\ recognition # 0
    /\ recSession[recognition].state = "listening"

(* The second of two toggles: recording, and the session that the first   *)
(* toggle started is still listening.                                      *)
StopAfterStart == toggleVoiceInput /\ isRecording /\ HeldListening

-----------------------------------------------------------------------------
(* C11 as stated: the stop toggle that follows the start toggle before    *)
(* any recognition event leaves recording false and the input unchanged.  *)
C11_Original ==
    [][StopAfterStart => (~isRecording' /\ input' = input)]_vars

(* C11 (amended): the stop toggle that follows the start toggle before    *)
(* any recognition event only asks the session to stop.  The input is     *)
(* unchanged and recording is still true; a result may still arrive for   *)
(* the stopping session and replaces the input, and recording becomes     *)
(* false with the session's error or end event.                           *)
C11_StopOnlyRequests ==
    [][/\ StopAfterStart =>
            /\ isRecording'
            /\ input' = input
            /\ recSession' = SetSession(recognition, "stopping")
       /\ \A obj \in DOMAIN recSession :
            (recSession[obj].state = "stopping" /\ recSession[obj].live) =>
                /\ \A transcript \in Transcripts :
                       OnResult(obj, transcript) => input' = transcript
                /\ (OnError(obj) \/ OnEnd(obj)) => ~isRecording'
      ]_vars

(* The two toggles have been made: the session is stopping, no event has  *)
(* reached it, recording is still shown and the typed input is in place.  *)
C11_Witness ==
    /\ mounted
    /\ isRecording
    /\ recognition # 0
    /\ recSession[recognition].state = "stopping"
    /\ input = <<" ", "a">>

-----------------------------------------------------------------------------
(* C12: the message list is append-only: every step of a mounted page     *)
(* (submission, reply, location share, re-run of the initialize effect    *)
(* on a locale change) leaves the previous message list as a prefix of    *)
(* the new one.                                                            *)
C12_AppendOnly ==
    [][(mounted /\ mounted') => IsPrefix(messages, messages')]_vars

-----------------------------------------------------------------------------
(* C13: the request that a submission sends to the backend is the system  *)
(* instruction, then every message of the list as it was before the       *)
(* submission, in order and once each with role and content only, then    *)
(* the new user message; also when the list ends with a location message, *)
(* an earlier submission's user message or a reply.                        *)
C13_RequestShape ==
    [][handleSubmit =>
          \E r \in inflight' :
             /\ r \notin inflight
             /\ inflight' = inflight \cup {r}
             /\ Len(r.api) = Len(messages) + 2
             /\ r.api[1] = [role |-> "system", content |-> SYSTEM_PROMPT]
             /\ \A i \in 1..Len(messages) :
                    r.api[i + 1] = [role |-> messages[i].role,
                                    content |-> messages[i].content]
             /\ r.api[Len(messages) + 2] = [role |-> "user", content |-> input]
      ]_vars

(* A second submission is in flight whose request carries the greeting,   *)
(* the first submission, its reply and a location message before the new  *)
(* user message.                                                           *)
C13_Witness ==
    \E r \in LiveRequests :
       /\ Len(r.api) = 6
       /\ r.api[3].role = "user"
       /\ r.api[4].role = "assistant"
       /\ r.api[5].content = LocationContent([lat |-> 12, lng |-> -7])

-----------------------------------------------------------------------------
(* C14: speech output is requested exactly once for each successful       *)
(* non-empty reply, with the reply text and the locale current when the   *)
(* reply is applied (a no-op where the platform cannot speak); a failed   *)
(* call and an empty reply request no speech, and an empty reply appends  *)
(* no assistant message.                                                   *)
C14_SpokenOncePerReply ==
    [][/\ \A req \in inflight, response \in Replies :
            SendChatMessageResolves(req, response) =>
               IF response # <<>>
               THEN spoken' = IF hasSynth
                              THEN Append(spoken, [text |-> response, lang |-> locale])
                              ELSE spoken
               ELSE spoken' = spoken /\ messages' = messages /\ store' = store
       /\ RejectStep => spoken' = spoken
       /\ Len(spoken') = IF hasSynth THEN okReplies' ELSE 0
      ]_vars

(* A reply has been spoken in the language selected after the submission. *)
C14_Witness ==
    /\ okReplies = 2
    /\ Len(spoken) = 2
    /\ spoken[1] = [text |-> <<"o", "k">>, lang |-> "en"]
    /\ spoken[2] = [text |-> <<"o", "k">>, lang |-> "hi"]

-----------------------------------------------------------------------------
(* C15: submitting an empty or whitespace-only input is a no-op: while    *)
(* the input holds nothing but whitespace the submit handler has no       *)
(* effect at all (it is not enabled as a state change), so no step taken  *)
(* with such an input accepts a submission, sets the pending flag, calls  *)
(* the backend or appends a typed user message.                           *)
IsBlank(s) == \A i \in 1..Len(s) : s[i] \in Whitespace

C15_BlankSubmitNoOp ==
    (mounted /\ IsBlank(input)) =>
        /\ ~ENABLED handleSubmit
        /\ \A m \in {accepted[i] : i \in 1..Len(accepted)} : ~IsBlank(m.content)
        /\ \A i \in 1..Len(store) :
              store[i].role = "user" => ~IsBlank(store[i].content)

(* A whitespace-only text is in the input of an idle page that has room   *)
(* for another submission: only the text keeps the handler from acting.   *)
C15_Witness ==
    /\ mounted
    /\ input = <<" ">>
    /\ ~isTyping
    /\ Len(accepted) = 1
    /\ Len(accepted) < MaxSubmits
    /\ inflight = {}

-----------------------------------------------------------------------------
(* C16 as stated: every recognition error or end event leaves recording   *)
(* false, and an error event leaves the input as it is.                   *)
C16_Original ==
    [][/\ (ErrorStep \/ EndStep) => ~isRecording'
       /\ ErrorStep => input' = input]_vars

(* C16 (amended): an error or end event of a session started by the       *)
(* page instance mounted now leaves recording false; an event of a        *)
(* session started by an instance torn down since leaves the recording    *)
(* state of the present instance as it is.  An error event never changes  *)
(* the input.  When every started session gets its end event, recording   *)
(* always returns to false.                                                *)
C16_EventsResetRecording ==
    /\ [][\A obj \in DOMAIN recSession :
            /\ (OnError(obj) \/ OnEnd(obj)) =>
                   IF recSession[obj].live
                   THEN ~isRecording'
                   ELSE isRecording' = isRecording
            /\ OnError(obj) => input' = input
         ]_vars
    /\ (isRecording ~> ~isRecording)

(* An error has been delivered to the session of the present instance:    *)
(* recording is false again, the end event is still to come and the       *)
(* typed input is in place.                                                *)
C16_Witness ==
    /\ mounted
    /\ ~isRecording
    /\ recognition # 0
    /\ recSession[recognition].live
    /\ recSession[recognition].state = "ending"
    /\ input = <<>>

-----------------------------------------------------------------------------
(* C17: a recognition result event only replaces the input with the       *)
(* transcript: the message list, the store, the pending flag, the set of  *)
(* backend calls and the recording flag are left as they are.             *)
C17_ResultOnlySetsInput ==
    [][\A obj \in DOMAIN recSession, transcript \in Transcripts :
          OnResult(obj, transcript) =>
             /\ recSession[obj].live => input' = transcript
             /\ UNCHANGED <<messages, store, isTyping, inflight, accepted,
                            spoken, clock, isRecording>>
      ]_vars

(* A transcript has replaced the input; nothing is pending and the       *)
(* message list is the one the page was mounted with.                     *)
C17_Witness ==
    /\ mounted
    /\ input = <<"a">>
    /\ recognition # 0
    /\ recSession[recognition].state = "ending"
    /\ isRecording
    /\ ~isTyping
    /\ inflight = {}
    /\ messages = store
    /\ Len(messages) = 1

-----------------------------------------------------------------------------
(* C18: recognition.start() is never called on a recognition object whose *)
(* session has not ended yet, also not when the user toggles between an   *)
(* error event and the end event that follows it.                         *)
C18_StartOnlyOnEndedSession == ~startThrew

-----------------------------------------------------------------------------
(* C19: whenever recording is true, the recognition object the component  *)
(* holds is one whose session is active, so that the stop of a toggle     *)
(* reaches the running session; also after a locale change made while    *)
(* recording.                                                              *)
C19_HeldObjectIsActive ==
    (mounted /\ isRecording) =>
        /\ recognition # 0
        /\ recognition \in ActiveObjects(recSession)

-----------------------------------------------------------------------------
(* C20: while the page is mounted, the in-memory message list equals the  *)
(* list in the store, element for element and in the same order, after    *)
(* every step.                                                             *)
C20_ListEqualsStore == mounted => messages = store

====
